---- MODULE Spec2Model ----
(***************************************************************************)
(* Arena (src/arena.py): a point agent in the unit disk that sees the      *)
(* coloured wall through a fan of rays.  The state is the Arena object's   *)
(* fields; the actions are the two property setters; __init__ is Init.     *)
(*                                                                         *)
(* Numbers.  The program computes in binary floating point (Python floats  *)
(* and numpy float64).  A number is modelled as a pair <<m, e>> standing   *)
(* for m * 2^e with a significand of MantBits bits, and every arithmetic   *)
(* operation rounds its exact result to the nearest such number (ties to   *)
(* even), as the hardware does with 53 bits.  Library functions (cos, sin, *)
(* tan, arctan, linspace) are modelled by what numpy returns.              *)
(***************************************************************************)
EXTENDS Integers, Sequences, FiniteSets, TLC

\* Bits of the significand (float64 has 53).
MantBits == 12
\* Largest visual_resolution a constructed Arena is given.
MaxRes == 3

---------------------------------------------------------------------------
(* Floating point                                                          *)

Pow2(k) == 2 ^ k
Abs(n) == IF n < 0 THEN -n ELSE n
Sgn(n) == IF n < 0 THEN -1 ELSE IF n > 0 THEN 1 ELSE 0

RECURSIVE BitLen(_)
BitLen(n) == IF n = 0 THEN 0 ELSE 1 + BitLen(n \div 2)

\* n / 2^k rounded to the nearest integer, ties to even (n >= 0, k >= 1).
RoundShift(n, k) ==
    LET q == n \div Pow2(k)
        r == n % Pow2(k)
        half == Pow2(k - 1)
    IN IF r > half \/ (r = half /\ q % 2 = 1) THEN q + 1 ELSE q

\* The special values: a zero significand with a non-zero exponent is
\* not-a-number, a significand of +-1 with exponent 0 is +-infinity (a finite
\* non-zero number always has a normalised significand, >= 2^(MantBits-1)).
NaN == <<0, 1>>
Inf(s) == <<s, 0>>
IsNaN(a) == a = NaN
IsInf(a) == a = Inf(1) \/ a = Inf(-1)
IsSpecial(a) == IsNaN(a) \/ IsInf(a)

\* The float nearest to m * 2^e.
Norm(m, e) ==
    LET a == Abs(m)
        L == BitLen(a)
    IN IF m = 0 THEN <<0, 0>>
       ELSE IF L > MantBits
            THEN LET q == RoundShift(a, L - MantBits)
                 IN IF q = Pow2(MantBits)
                    THEN <<Sgn(m) * Pow2(MantBits - 1), e + L - MantBits + 1>>
                    ELSE <<Sgn(m) * q, e + L - MantBits>>
            ELSE <<m * Pow2(MantBits - L), e - (MantBits - L)>>

FromInt(n) == Norm(n, 0)
Zero == FromInt(0)
One == FromInt(1)
Two == FromInt(2)

FNeg(a) == IF IsNaN(a) THEN NaN ELSE <<-a[1], a[2]>>
FAbs(a) == IF IsNaN(a) THEN NaN ELSE <<Abs(a[1]), a[2]>>

\* a + b, rounded.  An addend below a quarter of the other's last place does
\* not change it.
FAdd(a, b) ==
    IF IsSpecial(a) \/ IsSpecial(b) THEN NaN
    ELSE IF a[1] = 0 THEN b
    ELSE IF b[1] = 0 THEN a
    ELSE LET hi == IF a[2] >= b[2] THEN a ELSE b
             lo == IF a[2] >= b[2] THEN b ELSE a
             d == hi[2] - lo[2]
         IN IF d > MantBits + 1 THEN hi
            ELSE Norm(hi[1] * Pow2(d) + lo[1], lo[2])

FSub(a, b) == FAdd(a, FNeg(b))

FMul(a, b) ==
    IF IsSpecial(a) \/ IsSpecial(b) THEN NaN
    ELSE Norm(a[1] * b[1], a[2] + b[2])

\* a / b, rounded; x / 0 is an infinity and 0 / 0 not-a-number, as in numpy.
FDiv(a, b) ==
    IF IsSpecial(a) \/ IsSpecial(b) THEN NaN
    ELSE IF b[1] = 0 THEN (IF a[1] = 0 THEN NaN ELSE Inf(Sgn(a[1])))
    ELSE LET n == Abs(a[1]) * Pow2(MantBits + 2)
             q == n \div Abs(b[1])
             sticky == IF n % Abs(b[1]) = 0 THEN 0 ELSE 1
         IN Norm(Sgn(a[1]) * Sgn(b[1]) * (2 * q + sticky),
                 a[2] - b[2] - (MantBits + 3))

RECURSIVE NewtonSqrt(_, _)
NewtonSqrt(n, x) ==
    LET y == (x + n \div x) \div 2
    IN IF y >= x THEN x ELSE NewtonSqrt(n, y)

\* The integer square root of n >= 0.
Isqrt(n) == IF n = 0 THEN 0 ELSE NewtonSqrt(n, Pow2((BitLen(n) + 1) \div 2))

\* np.sqrt: the rounded square root; not-a-number below zero.
FSqrt(a) ==
    IF IsSpecial(a) \/ a[1] < 0 THEN NaN
    ELSE IF a[1] = 0 THEN a
    ELSE LET k == IF (a[2] - (MantBits + 2)) % 2 = 0
                  THEN MantBits + 2 ELSE MantBits + 3
             n == a[1] * Pow2(k)
             q == Isqrt(n)
             sticky == IF q * q = n THEN 0 ELSE 1
         IN Norm(2 * q + sticky, ((a[2] - k) \div 2) - 1)

\* a < b; every comparison with not-a-number is false.
FLt(a, b) ==
    IF IsSpecial(a) \/ IsSpecial(b) THEN FALSE
    ELSE FSub(a, b)[1] < 0

FLe(a, b) ==
    IF IsSpecial(a) \/ IsSpecial(b) THEN FALSE
    ELSE FSub(a, b)[1] <= 0

\* np.sign
FSign(a) == IF IsNaN(a) THEN NaN ELSE FromInt(Sgn(a[1]))

\* The float nearest to n / d, for integers n and d.
FromRatio(n, d) == FDiv(FromInt(n), FromInt(d))

\* a % b as Python and numpy compute it on floats: the C fmod (exact, with the
\* sign of a), to which b is added when the signs differ; that sum is rounded.
\* The C fmod of a by b: exact, with the sign of a.
CFmod(a, b) ==
    IF a[2] < b[2] THEN a
    ELSE Norm(Sgn(a[1]) * ((Abs(a[1]) * Pow2(a[2] - b[2])) % Abs(b[1])), b[2])

\* The remainder r = fmod(a, b) given the sign of the divisor b.
SignOfDivisor(r, b) ==
    IF r[1] # 0 /\ ((b[1] < 0) # (r[1] < 0)) THEN FAdd(r, b) ELSE r

FMod(a, b) ==
    IF IsSpecial(a) \/ IsSpecial(b) \/ b[1] = 0 THEN NaN
    ELSE IF a[1] = 0 THEN a
    ELSE SignOfDivisor(CFmod(a, b), b)

\* The nearest integer to a finite float.
NearestInt(a) ==
    IF a[1] = 0 THEN 0
    ELSE IF a[2] >= 0 THEN a[1] * Pow2(a[2])
    ELSE IF -a[2] > MantBits + 1 THEN 0
    ELSE Sgn(a[1]) * RoundShift(Abs(a[1]), -a[2])

---------------------------------------------------------------------------
(* Library functions                                                       *)

\* np.pi
Pi == FromRatio(355, 113)
\* 2*np.pi
TwoPi == FMul(Two, Pi)
HalfPi == FDiv(Pi, Two)

\* np.tan at an odd multiple of pi/2: the float nearest pi/2 is not pi/2, and
\* numpy returns 1.633e16, not an infinity.
TanHalfPi == FMul(FromInt(16331239), FromInt(10 ^ 9))
\* The slope above which line 31 takes a ray for vertical: 1e10.
SlopeLimit == FMul(FromInt(10 ^ 5), FromInt(10 ^ 5))

\* cos and tan of j * pi/12, j = 0..5, in units of 1/10000.
CosTab == <<10000, 9659, 8660, 7071, 5000, 2588>>
TanTab == <<0, 2679, 5774, 10000, 17321, 37321>>

\* The float just below pi/2, a ray that is nearly but not numerically
\* vertical: its tangent is the reciprocal of its distance to pi/2.
NearHalfPi == <<HalfPi[1] - 1, HalfPi[2]>>
TanNearHalfPi == FromInt(Pow2(MantBits - 1))

\* An angle is a multiple of pi/12 up to rounding; its index on that grid.
GridIndex(r) == NearestInt(FDiv(FMul(r, FromInt(12)), Pi)) % 24

QuadCos(j) == IF j = 6 THEN FDiv(One, TanHalfPi) ELSE FromRatio(CosTab[j + 1], 10000)
QuadSin(j) == IF j = 0 THEN Zero ELSE IF j = 6 THEN One ELSE QuadCos(6 - j)
QuadTan(j) == IF j = 6 THEN TanHalfPi ELSE FromRatio(TanTab[j + 1], 10000)

\* cos, sin and tan of k * pi/12, k = 0..23.
GridCos(k) ==
    IF k <= 6 THEN QuadCos(k)
    ELSE IF k <= 12 THEN FNeg(QuadSin(k - 6))
    ELSE IF k <= 18 THEN FNeg(QuadCos(k - 12))
    ELSE QuadSin(k - 18)

GridSin(k) ==
    IF k <= 6 THEN QuadSin(k)
    ELSE IF k <= 12 THEN QuadCos(k - 6)
    ELSE IF k <= 18 THEN FNeg(QuadSin(k - 12))
    ELSE FNeg(QuadCos(k - 18))

GridTan(j) == IF j <= 6 THEN QuadTan(j) ELSE FNeg(QuadTan(12 - j))

\* np.cos
Cos(r) ==
    IF r = NearHalfPi THEN FDiv(One, TanNearHalfPi) ELSE GridCos(GridIndex(r))

\* np.sin
Sin(r) == IF r = NearHalfPi THEN One ELSE GridSin(GridIndex(r))

\* np.tan
Tan(r) == IF r = NearHalfPi THEN TanNearHalfPi ELSE GridTan(GridIndex(r) % 12)

\* The odd polynomial np.arctan is computed from on [-1, 1], coefficients in
\* units of 1/10^7, lowest degree first.
ArctanCoeff == <<9998660, -3302995, 1801410, -851330, 208351>>

RECURSIVE Horner(_, _, _)
Horner(z2, i, acc) ==
    IF i = 0 THEN acc
    ELSE Horner(z2, i - 1, FAdd(FMul(acc, z2), FromRatio(ArctanCoeff[i], 10 ^ 7)))

ArctanUnit(z) == FMul(z, Horner(FMul(z, z), Len(ArctanCoeff), Zero))

\* np.arctan: +-pi/2 at the infinities, pi/2 - arctan(1/z) beyond 1.
Arctan(z) ==
    IF IsNaN(z) THEN NaN
    ELSE IF IsInf(z) THEN FMul(FromInt(z[1]), HalfPi)
    ELSE IF FLt(One, FAbs(z))
         THEN FMul(FSign(z), FSub(HalfPi, ArctanUnit(FDiv(One, FAbs(z)))))
    ELSE ArctanUnit(z)

\* Mutant of Linspace: the samples of np.arange(start, stop, step), which
\* leaves the end point out.
LinspaceNoEndpoint(start, stop, num) ==
    LET step == FDiv(FSub(stop, start), FromInt(num))
    IN [i \in 1..(num - 1) |-> FAdd(FMul(FromInt(i - 1), step), start)]

\* np.linspace(start, stop, num): num samples, the last one stop itself; a
\* single sample is start.
Linspace(start, stop, num) ==
    IF num = 1 THEN <<start>>
    ELSE LET step == FDiv(FSub(stop, start), FromInt(num - 1))
         IN [i \in 1..num |->
                IF i = num THEN stop
                ELSE FAdd(FMul(FromInt(i - 1), step), start)]

---------------------------------------------------------------------------
(* Wall colour functions (supplied by the caller of Arena)                 *)

\* A colour per quadrant of the wall.
QuadrantColor(a) ==
    IF FLt(a, HalfPi) THEN "red"
    ELSE IF FLt(a, Pi) THEN "green"
    ELSE IF FLt(a, FAdd(Pi, HalfPi)) THEN "blue"
    ELSE "yellow"

\* "quadrant" is total; "partial" is the same function, except that it
\* raises on an angle of the second quadrant, [pi/2, pi).
ColorFuncs == {"quadrant", "partial"}
TotalColorFuncs == {"quadrant"}

ColorOf(cf, a) == QuadrantColor(a)

\* Whether the batch call color_function(angles) raises.
ColorRaises(cf, angles) ==
    cf = "partial" /\ \E i \in 1..Len(angles) : QuadrantColor(angles[i]) = "green"

\* The value of the batch call color_function(angles), when it returns.
ColorBatch(cf, angles) == [i \in 1..Len(angles) |-> ColorOf(cf, angles[i])]

---------------------------------------------------------------------------
(* Arena                                                                   *)

VARIABLES
    colorfunc,        \* self.colorfunc
    visual_res,       \* self.visual_res
    visual_breadth,   \* self.visual_breadth
    pos,              \* self._pos, a pair <<x, y>>
    phi,              \* self._phi
    vf_xy,            \* self.vf_xy, a sequence of pairs <<x, y>>
    vf_angles,        \* self.vf_angles
    vf_colors,        \* self.vf_colors
    last              \* the latest call and how it ended, as its caller saw it

vars == <<colorfunc, visual_res, visual_breadth, pos, phi,
          vf_xy, vf_angles, vf_colors, last>>

arena == <<colorfunc, visual_res, visual_breadth, pos, phi,
           vf_xy, vf_angles, vf_colors>>

\* Arena._get_rays
\* Line 25: phi + rng, elementwise.
AddToEach(f, rng) == [i \in 1..Len(rng) |-> FAdd(f, rng[i])]

\* Arena._get_rays
GetRays(f, b, n) == AddToEach(f, Linspace(FNeg(b), b, n))

\* Arena._get_circle_intersection
\* Lines 38-39: the point of abscissa solX on the line through <<x0, y0>>.
PointOnLine(x0, y0, m, solX) == <<solX, FAdd(y0, FMul(m, FSub(solX, x0)))>>

\* Lines 37-39: the root of A x^2 + 2 Bhalf x + C on the side sgn.
QuadraticRoot(x0, y0, m, sgn, A, Bhalf, C) ==
    PointOnLine(x0, y0, m,
                FDiv(FAdd(FNeg(Bhalf),
                          FMul(sgn, FSqrt(FSub(FMul(Bhalf, Bhalf), FMul(A, C))))),
                     A))

\* Lines 34-36: the coefficients, m2 being m**2.
Quadratic(x0, y0, m, sgn, m2) ==
    QuadraticRoot(x0, y0, m, sgn,
                  FAdd(One, m2),
                  FSub(FMul(m, y0), FMul(m2, x0)),
                  FSub(FAdd(FSub(FMul(y0, y0),
                                 FMul(FMul(FMul(Two, m), y0), x0)),
                            FMul(m2, FMul(x0, x0))),
                       One))

\* Lines 31-39, for the slope m of the ray.
IntersectionForSlope(x0, y0, ray, m) ==
    IF FLt(SlopeLimit, FAbs(m))
    THEN <<x0, FMul(FSign(Sin(ray)), FSqrt(FSub(One, FMul(x0, x0))))>>
    ELSE Quadratic(x0, y0, m, FSign(Cos(ray)), FMul(m, m))

\* Arena._get_circle_intersection
GetCircleIntersection(p, ray) == IntersectionForSlope(p[1], p[2], ray, Tan(ray))

\* Line 51 for one point: arctan(y/x), plus pi where x < 0.
ArctanOfPoint(q) ==
    FAdd(Arctan(FDiv(q[2], q[1])), IF FLt(q[1], Zero) THEN Pi ELSE Zero)

\* Line 52 for one point: its angle on the wall, reduced modulo 2 pi.
WallAngle(q) == FMod(ArctanOfPoint(q), TwoPi)

Reverse(s) == [i \in 1..Len(s) |-> s[Len(s) + 1 - i]]

\* Lines 44-49 of update_vf: the intersections, in ray order.
Intersections(p, rays) ==
    [i \in 1..Len(rays) |-> GetCircleIntersection(p, rays[i])]

VfXy(p, f, b, n) == Intersections(p, GetRays(f, b, n))

\* Mutant of VfAngles: the [::-1] of line 52 left out.
VfAnglesForward(inters) == [i \in 1..Len(inters) |-> WallAngle(inters[i])]

\* Lines 51-52 of update_vf: the wall angles, in reverse ray order.
VfAngles(inters) == Reverse([i \in 1..Len(inters) |-> WallAngle(inters[i])])

\* Lines 44-52 of update_vf: <<vf_xy, vf_angles>> for a pose.
WithAngles(inters) == <<inters, VfAngles(inters)>>

VisualField(p, f, b, n) == WithAngles(VfXy(p, f, b, n))

\* The angle k * pi/4 as a caller writes it.
QuarterTurns(k) == FMul(FromInt(k), FDiv(Pi, FromInt(4)))

\* visual_breadth and visual_resolution of the Arenas constructed.
Breadths == {Zero, QuarterTurns(1), QuarterTurns(2)}
Resolutions == 1..MaxRes

\* Positions assigned: inside the disk, on its boundary, and outside.
PosInputs ==
    { <<Zero, Zero>>, <<FromRatio(1, 2), Zero>>,
      <<FromRatio(-1, 2), FromRatio(1, 2)>>, <<Zero, One>>,
      <<One, One>>, <<FromRatio(3, 5), FromRatio(9, 10)>> }

\* A negative angle far below the last place of 2 pi.
TinyNegative == FNeg(FDiv(One, FMul(FromInt(10 ^ 5), FromInt(10 ^ 5))))

\* Orientations assigned: below zero, above a full turn, nearly vertical.
PhiInputs ==
    { QuarterTurns(k) : k \in {0, 2, -2, 12} }
        \cup {TinyNegative, NearHalfPi}

\* Mutant of OutsideUnitCircle: >= for >.
OutsideOrOnUnitCircle(new_pos) ==
    FLe(One, FAdd(FMul(new_pos[1], new_pos[1]), FMul(new_pos[2], new_pos[2])))

\* Line 66: x**2 + y**2 > 1
OutsideUnitCircle(new_pos) ==
    FLt(One, FAdd(FMul(new_pos[1], new_pos[1]), FMul(new_pos[2], new_pos[2])))

\* Line 80: new_phi % (2*np.pi)
Normalised(new_phi) == FMod(new_phi, TwoPi)

\* The poses and configurations the inputs lead to.
TabulatedPoses ==
    {p \in PosInputs : ~OutsideUnitCircle(p)}
        \X ({Zero} \cup {Normalised(a) : a \in PhiInputs})
        \X Breadths \X Resolutions

\* VisualField at those, evaluated once (@@ makes the function explicit).
VisualFieldTable ==
    [k \in TabulatedPoses |-> VisualField(k[1], k[2], k[3], k[4])] @@ <<>>

VisualFieldAt(p, f, b, n) ==
    IF <<p, f, b, n>> \in TabulatedPoses
    THEN VisualFieldTable[<<p, f, b, n>>]
    ELSE VisualField(p, f, b, n)

\* Line 54, raises telling whether the call of the colour function raises.
CallColorFunc(angles, raises, op, arg) ==
    /\ vf_colors' = IF raises THEN vf_colors ELSE ColorBatch(colorfunc, angles)
    /\ last' = [op |-> op, arg |-> arg,
                err |-> IF raises THEN "ColorError" ELSE "none",
                rep |-> last.op = op /\ last.arg = arg]

\* Lines 49-54, vf being <<inters, vf_angles>>.
StoreVf(vf, op, arg) ==
    /\ vf_xy' = vf[1]
    /\ vf_angles' = vf[2]
    /\ CallColorFunc(vf[2], ColorRaises(colorfunc, vf[2]), op, arg)

\* Arena.update_vf, for the pose <<p, f>> already stored: vf_xy and vf_angles
\* are assigned before the colour function is called; when that call raises,
\* vf_colors keeps its value and the exception reaches the caller.
UpdateVf(p, f, op, arg) ==
    StoreVf(VisualFieldAt(p, f, visual_breadth, visual_res), op, arg)

\* Mutant of PosSetter: the position stored before it is checked.
PosSetterAssignFirst(new_pos) ==
    IF OutsideUnitCircle(new_pos)
    THEN /\ pos' = new_pos
         /\ last' = [op |-> "set_pos", arg |-> new_pos, err |-> "ValueError",
                     rep |-> last.op = "set_pos" /\ last.arg = new_pos]
         /\ UNCHANGED <<colorfunc, visual_res, visual_breadth, phi,
                        vf_xy, vf_angles, vf_colors>>
    ELSE /\ pos' = new_pos
         /\ UpdateVf(new_pos, phi, "set_pos", new_pos)
         /\ UNCHANGED <<colorfunc, visual_res, visual_breadth, phi>>

\* Arena.pos (setter)
PosSetter(new_pos) ==
    IF OutsideUnitCircle(new_pos)
    THEN /\ last' = [op |-> "set_pos", arg |-> new_pos, err |-> "ValueError",
                     rep |-> last.op = "set_pos" /\ last.arg = new_pos]
         /\ UNCHANGED arena
    ELSE /\ pos' = new_pos
         /\ UpdateVf(new_pos, phi, "set_pos", new_pos)
         /\ UNCHANGED <<colorfunc, visual_res, visual_breadth, phi>>

\* Mutant of PhiSetter: the update_vf() of line 81 left out.
PhiSetterNoUpdate(new_phi) ==
    /\ phi' = Normalised(new_phi)
    /\ last' = [op |-> "set_phi", arg |-> new_phi, err |-> "none",
                rep |-> last.op = "set_phi" /\ last.arg = new_phi]
    /\ UNCHANGED <<colorfunc, visual_res, visual_breadth, pos,
                   vf_xy, vf_angles, vf_colors>>

\* Mutant of PhiSetter: the agent turned by new_phi instead of set to it.
PhiSetterRelative(new_phi) ==
    /\ phi' = Normalised(FAdd(phi, new_phi))
    /\ UpdateVf(pos, phi', "set_phi", new_phi)
    /\ UNCHANGED <<colorfunc, visual_res, visual_breadth, pos>>

\* Arena.phi (setter)
PhiSetter(new_phi) ==
    /\ phi' = Normalised(new_phi)
    /\ UpdateVf(pos, phi', "set_phi", new_phi)
    /\ UNCHANGED <<colorfunc, visual_res, visual_breadth, pos>>

\* Lines 14-20, vf being the visual field update_vf computes at line 20.
Construct(cf, b, n, vf) ==
    /\ ~ColorRaises(cf, vf[2])
    /\ colorfunc = cf
    /\ visual_res = n
    /\ visual_breadth = b
    /\ pos = <<Zero, Zero>>
    /\ phi = Zero
    /\ vf_xy = vf[1]
    /\ vf_angles = vf[2]
    /\ vf_colors = ColorBatch(cf, vf[2])
    /\ last = [op |-> "init", arg |-> <<>>, err |-> "none", rep |-> FALSE]

\* Arena.__init__; a colour function that raises leaves no Arena behind.
Init ==
    \E cf \in ColorFuncs, b \in Breadths, n \in Resolutions :
        Construct(cf, b, n, VisualFieldAt(<<Zero, Zero>>, Zero, b, n))

Next ==
    \/ \E new_pos \in PosInputs : PosSetter(new_pos)
    \/ \E new_phi \in PhiInputs : PhiSetter(new_phi)

Spec == Init /\ [][Next]_vars

---------------------------------------------------------------------------
(* The claims                                                              *)

Origin == <<Zero, Zero>>
SquaredNorm(q) == FAdd(FMul(q[1], q[1]), FMul(q[2], q[2]))
\* Numerical tolerance of the geometric statements: 1/50.
Tolerance == FromRatio(1, 50)
Close(a, b) == FLe(FAbs(FSub(a, b)), Tolerance)

\* The visual field of the stored pose, as update_vf computes it.
CurrentField == VisualFieldAt(pos, phi, visual_breadth, visual_res)

\* C1: assigning a position with x^2 + y^2 > 1 raises the out-of-bounds error
\* and changes nothing: position, orientation and the three visual-field
\* sequences are what they were before the call.
C1_OutOfBoundsIsNoOp ==
    [][(last'.op = "set_pos" /\ FLt(One, SquaredNorm(last'.arg)))
          => (last'.err = "ValueError" /\ UNCHANGED arena)]_vars

\* C1 witness: a rejected assignment, made after the pose had left its defaults.
C1_Witness ==
    /\ last.op = "set_pos" /\ last.err = "ValueError"
    /\ FLt(One, SquaredNorm(last.arg))
    /\ pos # Origin /\ phi # Zero

\* C2: with a total colour function, the cached visual field is in every state
\* the one computed from the stored position and orientation.
C2_CachedFieldIsCurrent ==
    colorfunc \in TotalColorFuncs =>
        /\ vf_xy = CurrentField[1]
        /\ vf_angles = CurrentField[2]
        /\ vf_colors = ColorBatch(colorfunc, CurrentField[2])

\* C2 witness: position and orientation have both been assigned.
C2_Witness ==
    /\ colorfunc \in TotalColorFuncs
    /\ last.op = "set_phi" /\ pos # Origin /\ phi # Zero
    /\ vf_xy = CurrentField[1]

\* C3: assigning a position with x^2 + y^2 <= 1, the boundary included, is
\* accepted: the position is stored and the visual field recomputed before the
\* setter returns, and no error is raised (the only exception that can reach
\* the caller is the colour function's own).
C3_BoundaryAdmissible ==
    (last.op = "set_pos" /\ FLe(SquaredNorm(last.arg), One)) =>
        /\ pos = last.arg
        /\ vf_xy = CurrentField[1]
        /\ vf_angles = CurrentField[2]
        /\ IF ColorRaises(colorfunc, CurrentField[2])
           THEN last.err = "ColorError"
           ELSE last.err = "none" /\ vf_colors = ColorBatch(colorfunc, CurrentField[2])

\* C3 witness: a position with x^2 + y^2 exactly 1 has been accepted.
C3_Witness ==
    /\ last.op = "set_pos" /\ last.err = "none"
    /\ SquaredNorm(last.arg) = One
    /\ pos = last.arg

\* a - b is a whole number of turns, up to Tolerance.
Congruent(a, b) ==
    \E k \in -2..2 : Close(FSub(a, b), FMul(FromInt(k), TwoPi))

\* C4: assigning any orientation succeeds, and the stored orientation is then
\* congruent to it modulo 2 pi; the stored orientation lies in [0, 2 pi) in
\* every state.
C4_OrientationInRange ==
    /\ FLe(Zero, phi) /\ FLt(phi, TwoPi)
    /\ last.op = "set_phi" =>
          /\ Congruent(phi, last.arg)
          /\ last.err # "ValueError"
          /\ colorfunc \in TotalColorFuncs => last.err = "none"

\* C5, as claimed: the three sequences are aligned index by index: the i-th
\* angle is the wall angle of the i-th point and the i-th colour the colour of
\* the i-th angle.
C5_AlignedByIndex ==
    \A i \in 1..Len(vf_angles) :
        /\ vf_angles[i] = WallAngle(vf_xy[i])
        /\ vf_colors[i] = ColorOf(colorfunc, vf_angles[i])

\* C5, amended: the points are in ray order and the angles in reverse ray
\* order: the i-th angle is the wall angle of the point at index n + 1 - i
\* (counting from 1); the i-th colour is the colour function's value at the
\* i-th angle whenever that function is defined on the stored angles.
C5_AlignedInReverse ==
    /\ Len(vf_angles) = Len(vf_xy)
    /\ \A i \in 1..Len(vf_angles) :
          vf_angles[i] = WallAngle(vf_xy[Len(vf_xy) + 1 - i])
    /\ ~ColorRaises(colorfunc, vf_angles) =>
          /\ Len(vf_colors) = Len(vf_angles)
          /\ \A i \in 1..Len(vf_angles) :
                vf_colors[i] = ColorOf(colorfunc, vf_angles[i])

\* C5 witness: a field of several rays whose first and last angles differ,
\* computed by a setter.
C5_Witness ==
    /\ last.op # "init" /\ last.err = "none"
    /\ Len(vf_angles) >= 2
    /\ vf_angles[1] # vf_angles[Len(vf_angles)]
    /\ vf_angles[1] = WallAngle(vf_xy[Len(vf_xy)])
    /\ vf_angles[1] # WallAngle(vf_xy[1])

\* C6: each of the three visual-field sequences has exactly visual_resolution
\* entries, in every state.
C6_FieldSize ==
    /\ Len(vf_xy) = visual_res
    /\ Len(vf_angles) = visual_res
    /\ Len(vf_colors) = visual_res

\* C6 witness: a field of several rays recomputed at a pose off the defaults.
C6_Witness ==
    /\ visual_res >= 2 /\ Len(vf_xy) = visual_res
    /\ last.op # "init" /\ pos # Origin /\ phi # Zero

\* C7: the same setter called twice in a row with the same value leaves, after
\* the second call, the state the first call left (and ends the same way).
C7_SetterIdempotent ==
    [][last'.rep => (UNCHANGED arena /\ last'.err = last.err)]_vars

\* C7 witness: an orientation assigned twice in a row, not the default one.
C7_Witness ==
    /\ last.rep /\ last.op = "set_phi" /\ phi # Zero /\ pos # Origin

\* C8: the fan has visual_resolution rays, the i-th (from 0) being
\* phi - b + i * 2b / (n - 1); a single ray is phi itself.
C8_RayFan ==
    LET rays == GetRays(phi, visual_breadth, visual_res)
        n == visual_res
    IN /\ Len(rays) = n
       /\ n = 1 => Close(rays[1], phi)
       /\ n > 1 => \A i \in 1..n :
             Close(rays[i],
                   FAdd(FSub(phi, visual_breadth),
                        FDiv(FMul(FromInt(i - 1), FMul(Two, visual_breadth)),
                             FromInt(n - 1))))

\* C9: the stored pose and the three sequences belong to one pose in every
\* state the caller can observe, also after the colour function has raised.
C9_FieldOfOnePose ==
    /\ vf_xy = CurrentField[1]
    /\ vf_angles = CurrentField[2]
    /\ vf_colors = ColorBatch(colorfunc, CurrentField[2])

\* q lies on the ray from p at angle ray, ahead of p.
Ahead(p, ray, q) ==
    LET dx == FSub(q[1], p[1])
        dy == FSub(q[2], p[2])
    IN /\ FLt(Zero, FAdd(FMul(dx, Cos(ray)), FMul(dy, Sin(ray))))
       /\ Close(FMul(dx, Sin(ray)), FMul(dy, Cos(ray)))

\* C10: for a position strictly inside the disk, every ray's intersection
\* point lies on the unit circle, on the ray and ahead of the agent.
C10_ForwardIntersection ==
    FLt(SquaredNorm(pos), One) =>
        LET rays == GetRays(phi, visual_breadth, visual_res)
        IN \A i \in 1..Len(vf_xy) :
              /\ Close(SquaredNorm(vf_xy[i]), One)
              /\ Ahead(pos, rays[i], vf_xy[i])

====
